---------------------------- MODULE Spec2Model ----------------------------
(***************************************************************************)
(* A model of app.py: the page store (RealTimeDatabaseManager), the        *)
(* analyzer's prompt assembly and retry loop (AdvancedPDFAnalyzer) and the *)
(* script main() that drives them.                                         *)
(***************************************************************************)
EXTENDS Integers, Sequences, FiniteSets, TLC

(***************************************************************************)
(* Bounds of the model.                                                    *)
(***************************************************************************)
MaxPages == 2
MaxUploads == 2
MaxRuns == 2
MaxRetries == 3

(***************************************************************************)
(* Strings.  A Python str is a run-length encoded sequence of characters:  *)
(* a sequence of runs [ch, n] with n >= 1 and no two neighbouring runs of  *)
(* the same character.  Run(c, n) is c * n; a fixed literal of the source  *)
(* is one symbol.                                                          *)
(***************************************************************************)
Run(c, k) == IF k = 0 THEN <<>> ELSE <<[ch |-> c, n |-> k]>>

Lit(c) == Run(c, 1)

RECURSIVE StrLen(_)
StrLen(s) == IF s = <<>> THEN 0 ELSE Head(s).n + StrLen(Tail(s))

\* s + t
Cat(s, t) ==
    IF s = <<>> THEN t
    ELSE IF t = <<>> THEN s
    ELSE IF s[Len(s)].ch = t[1].ch
         THEN SubSeq(s, 1, Len(s) - 1)
                  \o <<[ch |-> t[1].ch, n |-> s[Len(s)].n + t[1].n]>>
                  \o Tail(t)
         ELSE s \o t

\* s[:k], k >= 0
RECURSIVE Slice(_, _)
Slice(s, k) ==
    IF s = <<>> \/ k <= 0 THEN <<>>
    ELSE IF Head(s).n >= k THEN <<[ch |-> Head(s).ch, n |-> k]>>
    ELSE <<Head(s)>> \o Slice(Tail(s), k - Head(s).n)

\* s[k:], k >= 0
RECURSIVE Drop(_, _)
Drop(s, k) ==
    IF s = <<>> \/ k <= 0 THEN s
    ELSE IF Head(s).n > k
         THEN <<[ch |-> Head(s).ch, n |-> Head(s).n - k]>> \o Tail(s)
    ELSE Drop(Tail(s), k - Head(s).n)

\* s[i - 1], for 1 <= i <= len(s)
RECURSIVE CharAt(_, _)
CharAt(s, i) ==
    IF i <= Head(s).n THEN Head(s).ch ELSE CharAt(Tail(s), i - Head(s).n)

\* sep.join(parts)
RECURSIVE Join(_, _)
Join(sep, parts) ==
    IF parts = <<>> THEN <<>>
    ELSE IF Len(parts) = 1 THEN parts[1]
    ELSE Cat(Cat(parts[1], sep), Join(sep, Tail(parts)))

(***************************************************************************)
(* The inputs of the store: uploaded files.                                *)
(***************************************************************************)
Threads == {1, 2}

FileNames == {"f.pdf", "g.pdf"}

PageTexts == {<<>>, Lit("a")}

\* an uploaded file: its name and the text extract_text() yields per page;
\* files of up to MaxPages pages under one name, of at most one page under
\* the other
Files ==
    {f \in [name : FileNames,
            pages : UNION {[1..k -> PageTexts] : k \in 0..MaxPages}] :
        f.name = "g.pdf" => Len(f.pages) <= 1}

VARIABLES
    pdf_data,       \* the rows of table pdf_data as self.conn sees them, by id
    committed,      \* how many of them are committed to the database file
    up,             \* per caller: the frame of its extract_pdf_data call
    content_read,   \* the caller's frame of get_pdf_content
    uploads,        \* history: the files given to extract_pdf_data, by call
    owner,          \* history: owner[id] is the call that inserted row id
    an,             \* the frame of the generate_content_with_retry call
    events,         \* history: the remote calls and sleeps of that call
    env_key,        \* os.getenv('GOOGLE_API_KEY'), "" when unset
    app             \* the script run of main()

storeVars == <<pdf_data, committed, up, content_read, uploads, owner>>

anVars == <<an, events>>

appVars == <<env_key, app>>

vars == <<pdf_data, committed, up, content_read, uploads, owner, an, events,
          env_key, app>>

IdleFrame ==
    [pc |-> "idle", uid |-> 0, name |-> "", pages |-> <<>>, page_num |-> 0,
     full_text |-> <<>>, extracted_data |-> <<>>]

NoRead == [pc |-> "idle", value |-> <<>>]

StoreInit ==
    /\ pdf_data = <<>>
    /\ committed = 0
    /\ up = [t \in Threads |-> IdleFrame]
    /\ content_read = NoRead
    /\ uploads = <<>>
    /\ owner = <<>>

\* the 0-based loop index as the page number
PageNumberZeroBased(page_num) == page_num

\* the number the loop gives the page it is at: page_num + 1
PageNumber(page_num) == page_num + 1

\* the frame extract_pdf_data starts with: pdf_reader, full_text = "",
\* extracted_data = []
NewFrame(uid, file) ==
    [pc |-> "loop", uid |-> uid, name |-> file.name, pages |-> file.pages,
     page_num |-> 0, full_text |-> <<>>, extracted_data |-> <<>>]

\* extract_pdf_data is entered
BeginExtract(t, file) ==
    /\ up[t].pc # "loop"
    /\ Len(uploads) < MaxUploads
    /\ uploads' = Append(uploads, file)
    /\ up' = [up EXCEPT ![t] = NewFrame(Len(uploads) + 1, file)]
    /\ content_read' = NoRead
    /\ UNCHANGED <<pdf_data, committed, owner>>
    /\ UNCHANGED <<anVars, appVars>>

\* one iteration of the loop over the pages
ExtractPage(t) ==
    /\ up[t].pc = "loop"
    /\ up[t].page_num < Len(up[t].pages)
    /\ LET f == up[t]
           page_text == f.pages[f.page_num + 1]
           row == [id |-> Len(pdf_data) + 1, filename |-> f.name,
                   page_number |-> PageNumber(f.page_num),
                   content |-> page_text]
       IN /\ pdf_data' = Append(pdf_data, row)
          /\ owner' = Append(owner, f.uid)
          /\ up' = [up EXCEPT ![t] =
                      [f EXCEPT
                         !.full_text = Cat(Cat(@, page_text), Run("\n", 2)),
                         !.extracted_data =
                             Append(@, [filename |-> f.name,
                                        page_number |-> PageNumber(f.page_num),
                                        content |-> page_text]),
                         !.page_num = @ + 1]]
    /\ UNCHANGED <<committed, content_read, uploads>>
    /\ UNCHANGED <<anVars, appVars>>

\* PdfReader, extract_text, execute or commit raises: the call is left by the
\* exception, and nothing undoes the rows it has inserted
RaiseInExtract(t) ==
    /\ up[t].pc = "loop"
    /\ up' = [up EXCEPT ![t] = [IdleFrame EXCEPT !.pc = "raised", !.uid = up[t].uid]]
    /\ UNCHANGED <<pdf_data, committed, content_read, uploads, owner>>
    /\ UNCHANGED <<anVars, appVars>>

\* self.conn.commit(): every row inserted through the connection is committed
Commit(t) ==
    /\ up[t].pc = "loop"
    /\ up[t].page_num = Len(up[t].pages)
    /\ committed' = Len(pdf_data)
    /\ up' = [up EXCEPT ![t].pc = "returned"]
    /\ UNCHANGED <<pdf_data, content_read, uploads, owner>>
    /\ UNCHANGED <<anVars, appVars>>

\* joined without the separator: ''.join(...)
JoinedContentNoSeparator(rows) ==
    Join(<<>>, [i \in 1..Len(rows) |-> rows[i].content])

\* ' '.join([row[0] for row in rows]), rows as fetchall() gives them
JoinedContent(rows) ==
    Join(Lit(" "), [i \in 1..Len(rows) |-> rows[i].content])

\* get_pdf_content(): SELECT content FROM pdf_data
GetPdfContent ==
    /\ \A t \in Threads : up[t].pc # "loop"
    /\ content_read.pc = "idle"
    /\ content_read' =
           [pc |-> "returned",
            value |-> JoinedContent(pdf_data)]
    /\ UNCHANGED <<pdf_data, committed, up, uploads, owner>>
    /\ UNCHANGED <<anVars, appVars>>

(***************************************************************************)
(* AdvancedPDFAnalyzer.generate_content_with_retry                         *)
(***************************************************************************)
Cap == 50000

DefaultMaxRetries == 3

RunLens == {1, Cap - 1, Cap, 60000}

\* document texts: up to MaxRuns runs of "a" and "b"
DocTexts ==
    {s \in UNION {[1..k -> [ch : {"a", "b"}, n : RunLens]] : k \in 0..MaxRuns} :
        \A i \in 1..(Len(s) - 1) : s[i].ch # s[i + 1].ch}

Instructions == {<<>>, Lit("q"), Cat(Lit("q"), Run("r", 2))}

\* what self.model.generate_content(full_prompt) can do: return a response
\* with a text, or raise an exception with a message
ResponseTexts == {Lit("r1"), Lit("r2")}

Errors == [cls : {"Exception", "ValueError"}, msg : {Lit("e1"), Lit("e2")}]

Header == "PDF Document Context:"

Middle == "User's Specific Request:"

Footer == "Please provide a comprehensive and precise response"

\* a cap off by one: pdf_content[:50001]
TruncateContentOffByOne(pdf_content) == Slice(pdf_content, Cap + 1)

\* pdf_content[:50000]
TruncateContent(pdf_content) == Slice(pdf_content, Cap)

\* the f-string full_prompt
FullPrompt(truncated_content, prompt) ==
    Cat(Cat(Cat(Cat(Lit(Header), truncated_content), Lit(Middle)), prompt),
        Lit(Footer))

\* for attempt in range(max_retries): is there an iteration for `attempt`
InRange(attempt, max_retries) == attempt < max_retries

\* a narrower clause: except ValueError as e
CatchesValueErrorOnly(e) == e.cls = "ValueError"

\* except Exception as e
Catches(e) == e.cls \in {"Exception", "ValueError"}

\* giving up one attempt early: if attempt >= max_retries - 2
IsLastAttemptEarly(attempt, max_retries) == attempt >= max_retries - 2

\* if attempt == max_retries - 1
IsLastAttempt(attempt, max_retries) == attempt = max_retries - 1

\* f"Error processing request: {str(e)}"
ErrorString(e) == Cat(Lit("Error processing request: "), e.msg)

\* a linear delay: 2 * attempt
BackoffLinear(attempt) == 2 * attempt

\* 2 ** attempt
Backoff(attempt) == 2 ^ attempt

Unable == Lit("Unable to process request")

NoResult == [kind |-> "none", value |-> <<>>]

AnIdle ==
    [pc |-> "idle", prompt |-> <<>>, pdf_content |-> <<>>, max_retries |-> 0,
     truncated_content |-> <<>>, full_prompt |-> <<>>, attempt |-> 0,
     ret |-> NoResult]

\* the frame after lines 23-34: the prompt is built, the loop not yet entered
EnterAnalyze(prompt, pdf_content, max_retries) ==
    [pc |-> "for", prompt |-> prompt, pdf_content |-> pdf_content,
     max_retries |-> max_retries,
     truncated_content |-> TruncateContent(pdf_content),
     full_prompt |-> FullPrompt(TruncateContent(pdf_content), prompt),
     attempt |-> 0, ret |-> NoResult]

\* history records: a remote call with its outcome, a sleep with its delay
CallEvent(ok, value) == [type |-> "call", ok |-> ok, value |-> value, delay |-> 0]

SleepEvent(d) == [type |-> "sleep", ok |-> FALSE, value |-> <<>>, delay |-> d]

\* generate_content_with_retry(prompt, pdf_content, max_retries) is called
Analyze(prompt, pdf_content, max_retries) ==
    /\ an.pc = "idle"
    /\ an' = EnterAnalyze(prompt, pdf_content, max_retries)
    /\ events' = <<>>
    /\ UNCHANGED <<storeVars, appVars>>

\* the for statement: the next attempt, or the loop is over
ForAttempt ==
    /\ an.pc = "for"
    /\ IF InRange(an.attempt, an.max_retries)
       THEN an' = [an EXCEPT !.pc = "try"]
       ELSE an' = [an EXCEPT !.pc = "returned",
                             !.ret = [kind |-> "return", value |-> Unable]]
    /\ UNCHANGED <<events, storeVars, appVars>>

\* the remote call returns a response: return response.text
RemoteSucceeds(text) ==
    /\ an.pc = "try"
    /\ events' = Append(events, CallEvent(TRUE, text))
    /\ an' = [an EXCEPT !.pc = "returned",
                        !.ret = [kind |-> "return", value |-> text]]
    /\ UNCHANGED <<storeVars, appVars>>

\* the remote call raises e: the except clause
RemoteFails(e) ==
    /\ an.pc = "try"
    /\ events' = Append(events, CallEvent(FALSE, e.msg))
    /\ an' = IF ~Catches(e)
             THEN [an EXCEPT !.pc = "raised",
                             !.ret = [kind |-> "raise", value |-> e.msg]]
             ELSE IF IsLastAttempt(an.attempt, an.max_retries)
             THEN [an EXCEPT !.pc = "returned",
                             !.ret = [kind |-> "return", value |-> ErrorString(e)]]
             ELSE [an EXCEPT !.pc = "sleep"]
    /\ UNCHANGED <<storeVars, appVars>>

\* time.sleep(2 ** attempt), then the next iteration
Sleep ==
    /\ an.pc = "sleep"
    /\ events' = Append(events, SleepEvent(Backoff(an.attempt)))
    /\ an' = [an EXCEPT !.pc = "for", !.attempt = @ + 1]
    /\ UNCHANGED <<storeVars, appVars>>

AppOff ==
    [pc |-> "off", key_field |-> "", api_key |-> "", db_manager |-> FALSE, uploaded |-> FALSE,
     analysis_type |-> "", custom_prompt |-> <<>>, button |-> FALSE,
     shown |-> <<>>]

AnalyzerInit ==
    /\ StoreInit
    /\ an = AnIdle
    /\ events = <<>>
    /\ env_key = ""
    /\ app = AppOff

AnalyzerNext ==
    \/ \E prompt \in Instructions, pdf_content \in DocTexts,
          max_retries \in 0..MaxRetries :
           Analyze(prompt, pdf_content, max_retries)
    \/ ForAttempt
    \/ \E text \in ResponseTexts : RemoteSucceeds(text)
    \/ \E e \in Errors : RemoteFails(e)
    \/ Sleep

AnalyzerSpec == AnalyzerInit /\ [][AnalyzerNext]_vars

(***************************************************************************)
(* get_google_api_key and main: one run of the script per user action.    *)
(***************************************************************************)
Keys == {"", "key"}

NoFile == [name |-> "", pages |-> <<>>]

\* the files the user uploads in the application
AppFiles == {f \in Files : f.name = "f.pdf" /\ \A i \in 1..Len(f.pages) : f.pages[i] = Lit("a")}

Predefined ==
    {"Summarize", "Document Information", "Step-by-Step Explanation",
     "Key Insights"}

AnalysisOptions == Predefined \cup {"Custom Analysis"}

CustomPrompts == {<<>>, Lit("q")}

\* get_google_api_key(): the environment variable, else the sidebar field
GetGoogleApiKey(env, field) == IF env # "" THEN env ELSE field

\* a gate that tests for None only: if api_key is None
GateNoneOnly(api_key) == FALSE

\* if not api_key: st.warning(...); st.stop()
Gate(api_key) == api_key = ""

Shown(kind, text) == [kind |-> kind, text |-> text]

NoAttribute ==
    Lit("'AdvancedPDFAnalyzer' object has no attribute 'analyze_pdf_content'")

AppInit ==
    /\ StoreInit
    /\ an = AnIdle
    /\ events = <<>>
    /\ env_key \in Keys
    /\ app = [AppOff EXCEPT !.pc = "idle"]

\* a run of main() up to the call of extract_pdf_data: the gate, a new
\* RealTimeDatabaseManager (a new connection: what the connection of the
\* run before left uncommitted is gone with it), the uploader
RunScript(field, file) ==
    /\ app.pc \in {"idle", "stopped", "done"}
    /\ file # NoFile => Len(uploads) < MaxUploads
    /\ LET api_key == GetGoogleApiKey(env_key, field)
       IN IF Gate(api_key)
          THEN /\ app' = [AppOff EXCEPT
                            !.pc = "stopped",
                            !.key_field = field,
                            !.shown = <<Shown("warning", Lit("Please provide a valid Google Gemini Pro API Key"))>>]
               /\ UNCHANGED <<pdf_data, owner, uploads, up>>
          ELSE /\ pdf_data' = SubSeq(pdf_data, 1, committed)
               /\ owner' = SubSeq(owner, 1, committed)
               /\ IF file = NoFile
                  THEN /\ app' = [AppOff EXCEPT !.pc = "done",
                                                !.key_field = IF env_key = "" THEN field ELSE "",
                                                !.api_key = api_key,
                                                !.db_manager = TRUE]
                       /\ up' = [up EXCEPT ![1] = IdleFrame]
                       /\ UNCHANGED uploads
                  ELSE /\ app' = [AppOff EXCEPT !.pc = "extract",
                                                !.key_field = IF env_key = "" THEN field ELSE "",
                                                !.api_key = api_key,
                                                !.db_manager = TRUE,
                                                !.uploaded = TRUE]
                       /\ up' = [up EXCEPT ![1] = NewFrame(Len(uploads) + 1, file)]
                       /\ uploads' = Append(uploads, file)
    /\ an' = AnIdle
    /\ events' = <<>>
    /\ UNCHANGED <<committed, content_read, env_key>>

\* extract_pdf_data raised: except Exception as e: st.error(...)
ExtractRaised ==
    /\ app.pc = "extract"
    /\ up[1].pc = "raised"
    /\ app' = [app EXCEPT
                 !.pc = "done",
                 !.shown = Append(@, Shown("error", Lit("Error processing PDF: ")))]
    /\ UNCHANGED <<storeVars, anVars, env_key>>

\* extract_pdf_data returned and the button is not pressed
UploadShown(analysis_type, custom_prompt) ==
    /\ app.pc = "extract"
    /\ up[1].pc = "returned"
    /\ app' = [app EXCEPT
                 !.pc = "done",
                 !.analysis_type = analysis_type,
                 !.custom_prompt = custom_prompt,
                 !.shown = Append(@, Shown("success", Lit(up[1].name)))]
    /\ UNCHANGED <<storeVars, anVars, env_key>>

\* the button is pressed, Custom Analysis with an empty prompt
WarnNoPrompt ==
    /\ app.pc = "extract"
    /\ up[1].pc = "returned"
    /\ app' = [app EXCEPT
                 !.pc = "done",
                 !.analysis_type = "Custom Analysis",
                 !.button = TRUE,
                 !.shown = Append(Append(@, Shown("success", Lit(up[1].name))),
                                  Shown("warning", Lit("Please enter a custom prompt for analysis")))]
    /\ UNCHANGED <<storeVars, anVars, env_key>>

\* the button is pressed, Custom Analysis:
\* generate_content_with_retry(custom_prompt, full_text)
CustomAnalysis(custom_prompt) ==
    /\ app.pc = "extract"
    /\ up[1].pc = "returned"
    /\ custom_prompt # <<>>
    /\ app' = [app EXCEPT
                 !.pc = "analyze",
                 !.analysis_type = "Custom Analysis",
                 !.custom_prompt = custom_prompt,
                 !.button = TRUE,
                 !.shown = Append(@, Shown("success", Lit(up[1].name)))]
    /\ an' = EnterAnalyze(custom_prompt, up[1].full_text, DefaultMaxRetries)
    /\ events' = <<>>
    /\ UNCHANGED <<storeVars, env_key>>

\* the button is pressed, a predefined type: pdf_analyzer.analyze_pdf_content,
\* which AdvancedPDFAnalyzer does not define; the AttributeError is caught by
\* except Exception as e: st.error(...)
PredefinedAnalysis(analysis_type, custom_prompt) ==
    /\ app.pc = "extract"
    /\ up[1].pc = "returned"
    /\ analysis_type \in Predefined
    /\ app' = [app EXCEPT
                 !.pc = "done",
                 !.analysis_type = analysis_type,
                 !.custom_prompt = custom_prompt,
                 !.button = TRUE,
                 !.shown = Append(Append(@, Shown("success", Lit(up[1].name))),
                                  Shown("error", Cat(Lit("Error processing PDF: "), NoAttribute)))]
    /\ UNCHANGED <<storeVars, anVars, env_key>>

\* generate_content_with_retry is over: st.markdown(result), or the except
\* clause of main
ShowResult ==
    /\ app.pc = "analyze"
    /\ an.pc \in {"returned", "raised"}
    /\ app' = [app EXCEPT
                 !.pc = "done",
                 !.shown = Append(@, IF an.pc = "returned"
                                     THEN Shown("markdown", an.ret.value)
                                     ELSE Shown("error", Cat(Lit("Error processing PDF: "), an.ret.value)))]
    /\ UNCHANGED <<storeVars, anVars, env_key>>

AppNext ==
    \/ \E field \in Keys, file \in AppFiles \cup {NoFile} : RunScript(field, file)
    \/ ExtractPage(1)
    \/ RaiseInExtract(1)
    \/ Commit(1)
    \/ ExtractRaised
    \/ \E t \in AnalysisOptions, c \in CustomPrompts : UploadShown(t, c)
    \/ WarnNoPrompt
    \/ \E c \in CustomPrompts : CustomAnalysis(c)
    \/ \E t \in AnalysisOptions, c \in CustomPrompts : PredefinedAnalysis(t, c)
    \/ ForAttempt
    \/ \E text \in ResponseTexts : RemoteSucceeds(text)
    \/ \E e \in Errors : RemoteFails(e)
    \/ Sleep
    \/ ShowResult

AppSpec == AppInit /\ [][AppNext]_vars

\* one caller at a time
StoreNext ==
    \/ \E file \in Files : BeginExtract(1, file)
    \/ ExtractPage(1)
    \/ RaiseInExtract(1)
    \/ Commit(1)
    \/ GetPdfContent

StoreOnlyInit ==
    /\ StoreInit
    /\ an = AnIdle
    /\ events = <<>>
    /\ env_key = ""
    /\ app = AppOff

StoreSpec == StoreOnlyInit /\ [][StoreNext]_vars

\* two callers on the one connection
ConcNext ==
    \E t \in Threads :
        \/ \E file \in Files : BeginExtract(t, file)
        \/ ExtractPage(t)
        \/ RaiseInExtract(t)
        \/ Commit(t)

ConcSpec == StoreOnlyInit /\ [][ConcNext]_vars

(***************************************************************************)
(* Properties of generate_content_with_retry, under AnalyzerSpec.          *)
(***************************************************************************)
Calls == SelectSeq(events, LAMBDA ev : ev.type = "call")

Sleeps == SelectSeq(events, LAMBDA ev : ev.type = "sleep")

Over == an.pc \in {"returned", "raised"}

AllFailed == \A i \in 1..Len(Calls) : ~Calls[i].ok

ErrorPrefix == Lit("Error processing request: ")

\* C1: with max_retries = M >= 1, a remote call that fails K < M times and
\* then succeeds makes the analyzer return the success value after exactly
\* K + 1 remote calls (the first K of them the failures), and a remote call
\* that always fails makes it return an error string after exactly M calls;
\* no call is made beyond these.
RetryContract ==
    an.max_retries >= 1 /\ an.pc # "idle" =>
        /\ Len(Calls) <= an.max_retries
        /\ \A i \in 1..(Len(Calls) - 1) : ~Calls[i].ok
        /\ Over =>
            /\ Len(Calls) >= 1
            /\ an.ret.kind = "return"
            /\ Calls[Len(Calls)].ok => an.ret.value = Calls[Len(Calls)].value
            /\ AllFailed =>
                /\ Len(Calls) = an.max_retries
                /\ Slice(an.ret.value, 1) = ErrorPrefix

\* C1 witness: two failures, then the third of three attempts succeeds
RetryContractWitness ==
    /\ an.pc = "returned"
    /\ an.max_retries = 3
    /\ Len(Calls) = 3
    /\ ~Calls[1].ok /\ ~Calls[2].ok /\ Calls[3].ok
    /\ an.ret.value = Calls[3].value

\* C4: whatever the instruction, the document text and max_retries, the call
\* ends by returning a string and never by raising; when every one of the M
\* attempts failed, with messages e1..eM, the string returned is the error
\* text followed by eM, the message of the last failure.
AlwaysDisplayable ==
    /\ an.pc # "raised"
    /\ an.ret.kind # "raise"
    /\ Over =>
        /\ an.ret.kind = "return"
        /\ an.ret.value \in Seq([ch : STRING, n : Nat \ {0}])
        /\ (an.max_retries >= 1 /\ AllFailed) =>
            /\ Slice(an.ret.value, 1) = ErrorPrefix
            /\ Drop(an.ret.value, 1) = Calls[Len(Calls)].value

\* C4 witness: three failures whose first and last messages differ
AlwaysDisplayableWitness ==
    /\ an.pc = "returned"
    /\ an.max_retries = 3
    /\ Len(Calls) = 3
    /\ AllFailed
    /\ Calls[1].value # Calls[3].value
    /\ Drop(an.ret.value, 1) = Calls[3].value

RECURSIVE IsPrefix(_, _)
IsPrefix(p, s) ==
    \/ p = <<>>
    \/ /\ s # <<>>
       /\ Head(p).ch = Head(s).ch
       /\ \/ Head(p).n = Head(s).n /\ IsPrefix(Tail(p), Tail(s))
          \/ Head(p).n < Head(s).n /\ Tail(p) = <<>>

\* C6: a document text shorter than the cap of 50,000 characters is in the
\* prompt whole; of a longer one the excerpt is its first 50,000 characters
\* and no more; the prompt is the header, the excerpt, the middle framing,
\* the instruction unchanged and the footer.
PromptCap ==
    an.pc # "idle" =>
        LET d == an.pdf_content
            t == an.truncated_content
            fp == an.full_prompt
        IN /\ StrLen(d) < Cap => t = d
           /\ StrLen(d) > Cap => StrLen(t) = Cap /\ IsPrefix(t, d)
           /\ StrLen(t) <= Cap
           /\ StrLen(fp) = StrLen(t) + StrLen(an.prompt) + 3
           /\ CharAt(fp, 1) = Header
           /\ Slice(Drop(fp, 1), StrLen(t)) = t
           /\ CharAt(fp, StrLen(t) + 2) = Middle
           /\ Slice(Drop(fp, StrLen(t) + 2), StrLen(an.prompt)) = an.prompt
           /\ CharAt(fp, StrLen(fp)) = Footer

\* C6 witness: a text of 60,000 characters whose excerpt has 50,000
PromptCapWitness ==
    /\ an.pc # "idle"
    /\ StrLen(an.pdf_content) = 60000
    /\ StrLen(an.truncated_content) = 50000
    /\ an.prompt # <<>>

\* C10: the events of a call are remote calls and sleeps in turn, starting
\* with a call: one sleep between two consecutive attempts and nowhere
\* else, the j-th sleep lasting 2^(j-1); a call that is over ended with a
\* remote call, so it slept once less than it called, and M - 1 times when
\* all of M >= 1 attempts failed.
BackoffOrdering ==
    /\ \A i \in 1..Len(events) :
          IF i % 2 = 1
          THEN events[i].type = "call"
          ELSE events[i].type = "sleep" /\ events[i].delay = 2 ^ ((i \div 2) - 1)
    /\ \A i \in 1..(Len(events) - 1) : events[i].type = "call" => ~events[i].ok
    /\ (Over /\ events # <<>>) =>
          /\ events[Len(events)].type = "call"
          /\ Len(Sleeps) = Len(Calls) - 1
          /\ (AllFailed /\ an.max_retries >= 1) => Len(Sleeps) = an.max_retries - 1

\* C10 witness: failures on attempts 1 and 2, success on attempt 3: two
\* sleeps, of 1 and 2
BackoffOrderingWitness ==
    /\ an.pc = "returned"
    /\ Len(Calls) = 3
    /\ Calls[3].ok
    /\ Len(Sleeps) = 2
    /\ Sleeps[1].delay = 1 /\ Sleeps[2].delay = 2

(***************************************************************************)
(* Properties of the store, under StoreSpec (one caller) and ConcSpec (two *)
(* callers on the one connection).                                         *)
(***************************************************************************)
RowsOf(u) == {i \in 1..Len(pdf_data) : owner[i] = u}

CommittedOf(u) == {i \in 1..committed : owner[i] = u}

NPages(u) == Len(uploads[u].pages)

\* the page texts the calls 1..u have inserted, call by call, page by page
RECURSIVE StoredTexts(_)
StoredTexts(u) ==
    IF u = 0 THEN <<>>
    ELSE StoredTexts(u - 1) \o SubSeq(uploads[u].pages, 1, Cardinality(RowsOf(u)))

\* where the i-th text starts in the texts joined by one character
RECURSIVE Offset(_, _)
Offset(texts, i) ==
    IF i = 1 THEN 0 ELSE Offset(texts, i - 1) + StrLen(texts[i - 1]) + 1

\* C5: after any sequence of uploads, what get_pdf_content returns is the
\* texts of the stored pages, earlier uploads first and the pages of an
\* upload in page order, with one space between two neighbours and nothing
\* else; it is the empty string when nothing is stored.
ReadAllContent ==
    content_read.pc = "returned" =>
        LET texts == StoredTexts(Len(uploads))
            v == content_read.value
        IN /\ Len(texts) = Len(pdf_data)
           /\ texts = <<>> => v = <<>>
           /\ texts # <<>> =>
                 StrLen(v) = Offset(texts, Len(texts)) + StrLen(texts[Len(texts)])
           /\ \A i \in 1..Len(texts) :
                 /\ \A k \in 1..StrLen(texts[i]) :
                       CharAt(v, Offset(texts, i) + k) = CharAt(texts[i], k)
                 /\ i < Len(texts) =>
                       CharAt(v, Offset(texts, i) + StrLen(texts[i]) + 1) = " "

\* C5 witness: a read after two uploads that both stored pages, an empty
\* page among them
ReadAllContentWitness ==
    /\ content_read.pc = "returned"
    /\ Len(uploads) = 2
    /\ RowsOf(1) # {} /\ RowsOf(2) # {}
    /\ \E i, j \in 1..Len(pdf_data) :
          pdf_data[i].content = <<>> /\ pdf_data[j].content # <<>>
    /\ content_read.value # <<>>

\* every row is the k-th page of the file of the call that inserted it, k
\* being its place among the rows of that call
Numbered ==
    /\ \A id \in 1..Len(pdf_data) :
          LET u == owner[id]
              k == Cardinality({j \in RowsOf(u) : j <= id})
              r == pdf_data[id]
          IN /\ r.id = id
             /\ r.page_number = k
             /\ k <= NPages(u)
             /\ r.filename = uploads[u].name
             /\ r.content = uploads[u].pages[k]
    /\ \A t \in Threads :
          up[t].pc = "returned" => Cardinality(RowsOf(up[t].uid)) = NPages(up[t].uid)

\* C9: in every state of the store every page record carries the 1-based
\* position of its page in its file, with that page's text and the file's
\* name, an upload of N pages that returned has added N records, numbered
\* 1..N, and no step changes a record that is already there.
PageNumbers ==
    [][/\ Numbered'
       /\ Len(pdf_data') >= Len(pdf_data)
       /\ \A id \in 1..Len(pdf_data) : pdf_data'[id] = pdf_data[id]]_vars

\* C9 witness: the same file name uploaded twice, two pages each time
PageNumbersWitness ==
    /\ Len(uploads) = 2
    /\ uploads[1].name = uploads[2].name
    /\ up[1].pc = "returned"
    /\ Len(pdf_data) = 4
    /\ pdf_data[3].page_number = 1 /\ pdf_data[4].page_number = 2

\* C2: in every state, of each upload either all N page records are
\* committed or none is; none of an upload that failed.
AtomicPerCall ==
    \A u \in 1..Len(uploads) :
        /\ Cardinality(CommittedOf(u)) \in {0, NPages(u)}
        /\ (\E t \in Threads : up[t].uid = u /\ up[t].pc = "raised") =>
              CommittedOf(u) = {}

\* C7: with two uploads running on the one connection, the committed store
\* never holds some but not all of the page records of an upload.
ConcurrentAtomic ==
    ~ \E u \in 1..Len(uploads) :
        /\ CommittedOf(u) # {}
        /\ Cardinality(CommittedOf(u)) < NPages(u)

(***************************************************************************)
(* Properties of main, under AppSpec.                                      *)
(***************************************************************************)
LastShown == app.shown[Len(app.shown)]

\* C3: pressing Analyze with a predefined analysis type makes at least one
\* and at most max_retries remote calls and shows, as the analysis result,
\* the text of the remote success or the analyzer's error string.
PredefinedSharesContract ==
    (app.pc = "done" /\ app.button /\ app.analysis_type \in Predefined) =>
        /\ Len(Calls) \in 1..DefaultMaxRetries
        /\ LastShown.kind = "markdown"
        /\ \/ Calls[Len(Calls)].ok /\ LastShown.text = Calls[Len(Calls)].value
           \/ AllFailed /\ Slice(LastShown.text, 1) = ErrorPrefix

CredentialAbsent == env_key = "" /\ app.key_field = ""

\* C8: while neither the environment variable nor the sidebar field gives a
\* key, a run of the script stops at the gate: no manager is constructed,
\* no row is inserted or committed, no remote call is made; a run stops
\* there for no other reason, and the run after the key is supplied
\* constructs the manager and goes on.
ConfigurationGate ==
    [][/\ app'.pc # "idle" =>
            /\ CredentialAbsent' <=> app'.pc = "stopped"
            /\ CredentialAbsent' <=> ~app'.db_manager
       /\ CredentialAbsent' =>
            /\ pdf_data' = pdf_data
            /\ committed' = committed
            /\ events' = <<>>
            /\ an'.pc = "idle"
            /\ up'[1].pc # "loop"
       /\ (app.pc = "stopped" /\ ~CredentialAbsent') =>
            app'.db_manager /\ app'.pc \in {"done", "extract"}]_vars

\* C8 witness: a run stopped at the gate after an earlier run, with the key
\* given, had stored pages
ConfigurationGateWitness ==
    /\ app.pc = "stopped"
    /\ CredentialAbsent
    /\ ~app.db_manager
    /\ committed > 0

=============================================================================
